---- MODULE Spec2Model ----
(***************************************************************************)
(* A model of lldb/source/Host/posix/HostInfoPosix.cpp: the library-       *)
(* relative path derivation, the user/group name resolver hooks and the    *)
(* hostname query.  Strings are sequences of one-character strings; the    *)
(* character "NUL" stands for the byte 0.                                  *)
(***************************************************************************)
EXTENDS Integers, Sequences, FiniteSets, TLC

(***************************************************************************)
(* Bounds of the model.                                                    *)
(***************************************************************************)
\* Longest shared-library directory, in path segments.
MaxSegs == 3

\* The size of the hostname buffer (PATH_MAX in the code), in bytes.
BufLen == 3

\* The user and group ids are 0..MaxId.
MaxId == 1

\* StringRef::npos.
npos == -1

(***************************************************************************)
(* Path strings.                                                           *)
(***************************************************************************)
Segments == { <<"l", "i", "b">>, <<"x">> }

Suffixes == { <<"/", "b", "i", "n">>, <<"/", "e">> }

RECURSIVE JoinSegs(_)
JoinSegs(segs) ==
    IF Len(segs) = 0 THEN << >>
    ELSE IF Len(segs) = 1 THEN segs[1]
    ELSE segs[1] \o <<"/">> \o JoinSegs(Tail(segs))

SegSeqs == UNION { [1..n -> Segments] : n \in 0..MaxSegs }

\* The paths a FileSpec can hold in normal form: absolute or relative, no
\* repeated and no trailing separator.  The empty path is the absent FileSpec.
Paths == { JoinSegs(s) : s \in SegSeqs } \cup { <<"/">> \o JoinSegs(s) : s \in SegSeqs }

\* The output handles a caller passes in.
CallerDirs == { << >>, <<"/", "x">> }
CallerNames == { << >>, <<"f">> }

VARIABLES
    shlib_dir,   \* what GetShlibDir() returns, as its GetPath(); << >> is the absent FileSpec
    file_spec,   \* the caller's output handle: [dir, filename]
    log_on,      \* whether GetLogIfAllCategoriesSet(LIBLLDB_LOG_HOST) is non-null
    path_call    \* the most recent path call: [op, dir, pre, ret, msgs]

path_vars == <<shlib_dir, file_spec, log_on, path_call>>

VARIABLES
    platform,         \* the build: [ANDROID, USE_GETPWUID] (lines 45-50)
    discipline,       \* how the base class serializes the hooks: "global" or "per_id"
    passwd,           \* the user database: uid -> "entry", "absent" or "error"
    group,            \* the group database: gid -> "entry" or "absent"
    reentrant_broken, \* whether getgrgid_r fails on this platform (as seen on darwin)
    pw_static,        \* the static storage getpwuid returns a pointer to
    gr_static,        \* the static storage getgrgid returns a pointer to
    pc,               \* per thread: where its hook invocation stands
    arg,              \* per thread: [kind, id] of the hook invocation
    trace,            \* per thread: the lookups made so far, each [fn, rc, res]
    hook_ret          \* per thread: what its last hook invocation returned: [kind, id, value, calls]

resolver_vars == <<platform, discipline, passwd, group, reentrant_broken, pw_static,
                   gr_static, pc, arg, trace, hook_ret>>

VARIABLES
    nodename,    \* the kernel's node name
    dns,         \* what gethostbyname of the node name yields: a canonical name or NoHost
    s,           \* the caller's output string
    host_call    \* the most recent GetHostname call: [op, ret, pre, kernel_ok, lookups]

host_vars == <<nodename, dns, s, host_call>>

vars == <<path_vars, resolver_vars, host_vars>>

\* No path call has returned since the environment last changed.
NoPathCall ==
    [op |-> "none", dir |-> << >>, pre |-> [dir |-> << >>, filename |-> << >>],
     ret |-> FALSE, msgs |-> << >>]

(***************************************************************************)
(* llvm::sys::path::parent_path, posix style.  Positions are 0-based as in *)
(* the C++ code; str[i + 1] is the character at position i.                *)
(***************************************************************************)
is_separator(c) == c = "/"

find_last_of_sep(str) ==
    LET hits == { i \in 0..(Len(str) - 1) : is_separator(str[i + 1]) }
    IN IF hits = {} THEN npos ELSE CHOOSE i \in hits : \A j \in hits : j <= i

find_first_of_sep(str, from) ==
    LET hits == { i \in from..(Len(str) - 1) : is_separator(str[i + 1]) }
    IN IF hits = {} THEN npos ELSE CHOOSE i \in hits : \A j \in hits : i <= j

filename_pos(str) ==
    IF Len(str) > 0 /\ is_separator(str[Len(str)]) THEN Len(str) - 1
    ELSE LET pos == find_last_of_sep(str)
         IN IF pos = npos \/ (pos = 1 /\ is_separator(str[1])) THEN 0
            ELSE pos + 1

root_dir_start(str) ==
    IF Len(str) > 3 /\ is_separator(str[1]) /\ str[1] = str[2]
                    /\ ~is_separator(str[3])
    THEN find_first_of_sep(str, 2)
    ELSE IF Len(str) > 0 /\ is_separator(str[1]) THEN 0
    ELSE npos

RECURSIVE skip_separators(_, _, _)
skip_separators(path, end_pos, root_dir_pos) ==
    IF end_pos > 0 /\ (root_dir_pos = npos \/ end_pos > root_dir_pos)
                   /\ is_separator(path[end_pos])
    THEN skip_separators(path, end_pos - 1, root_dir_pos)
    ELSE end_pos

parent_path_end(path) ==
    LET end_pos0 == filename_pos(path)
        filename_was_sep == Len(path) > 0 /\ is_separator(path[end_pos0 + 1])
        root_dir_pos == root_dir_start(path)
        end_pos == skip_separators(path, end_pos0, root_dir_pos)
    IN IF end_pos = root_dir_pos /\ ~filename_was_sep THEN root_dir_pos + 1
       ELSE end_pos

parent_path(path) ==
    LET end_pos == parent_path_end(path)
    IN IF end_pos = npos THEN << >> ELSE SubSeq(path, 1, end_pos)

(***************************************************************************)
(* HostInfoPosix::ComputePathRelativeToLibrary(file_spec, dir).            *)
(* The result is [ret, file_spec, msgs]: the return value, the output      *)
(* handle when the call returns, and the messages printed to the log.      *)
(***************************************************************************)
AttemptMsg(dir, raw_path) == [msg |-> "attempting to derive", dir |-> dir, path |-> raw_path]
DerivedMsg(raw_path) == [msg |-> "derived the bin path as", path |-> raw_path]
BailMsg == [msg |-> "bailing on bin path construction"]

\* if (log) log->Printf(...)
Printf(m) == IF log_on THEN <<m>> ELSE << >>

\* Variants of ComputePathRelativeToLibrary with one plausible slip each.
\* The library directory is not dropped before the suffix is appended.
ComputePath_KeepsLibraryDir(fs, dir) ==
    LET lldb_file_spec == shlib_dir
    IN IF lldb_file_spec = << >>
       THEN [ret |-> FALSE, file_spec |-> fs, msgs |-> << >>]
       ELSE LET raw_path0 == lldb_file_spec
                parent == parent_path(raw_path0)
                raw_path == IF parent # << >> THEN raw_path0 \o dir ELSE raw_path0
                msgs == Printf(AttemptMsg(dir, raw_path0))
                        \o (IF parent # << >> THEN Printf(DerivedMsg(raw_path))
                                              ELSE Printf(BailMsg))
                out == [fs EXCEPT !.dir = raw_path]
            IN [ret |-> out.dir # << >>, file_spec |-> out, msgs |-> msgs]

\* The output directory is written before the absent check.
ComputePath_WritesWhenAbsent(fs, dir) ==
    LET lldb_file_spec == shlib_dir
    IN IF lldb_file_spec = << >>
       THEN [ret |-> FALSE, file_spec |-> [fs EXCEPT !.dir = << >>], msgs |-> << >>]
       ELSE LET raw_path0 == lldb_file_spec
                parent == parent_path(raw_path0)
                raw_path == IF parent # << >> THEN parent \o dir ELSE raw_path0
                msgs == Printf(AttemptMsg(dir, raw_path0))
                        \o (IF parent # << >> THEN Printf(DerivedMsg(raw_path))
                                              ELSE Printf(BailMsg))
                out == [fs EXCEPT !.dir = raw_path]
            IN [ret |-> out.dir # << >>, file_spec |-> out, msgs |-> msgs]

\* The return value reports whether a parent was found, not the directory.
ComputePath_ReturnsParentFound(fs, dir) ==
    LET lldb_file_spec == shlib_dir
    IN IF lldb_file_spec = << >>
       THEN [ret |-> FALSE, file_spec |-> fs, msgs |-> << >>]
       ELSE LET raw_path0 == lldb_file_spec
                parent == parent_path(raw_path0)
                raw_path == IF parent # << >> THEN parent \o dir ELSE raw_path0
                msgs == Printf(AttemptMsg(dir, raw_path0))
                        \o (IF parent # << >> THEN Printf(DerivedMsg(raw_path))
                                              ELSE Printf(BailMsg))
                out == [fs EXCEPT !.dir = raw_path]
            IN [ret |-> parent # << >>, file_spec |-> out, msgs |-> msgs]

ComputePathRelativeToLibrary(fs, dir) ==
    LET lldb_file_spec == shlib_dir
    IN IF lldb_file_spec = << >>
       THEN [ret |-> FALSE, file_spec |-> fs, msgs |-> << >>]
       ELSE LET raw_path0 == lldb_file_spec
                parent == parent_path(raw_path0)
                raw_path == IF parent # << >> THEN parent \o dir ELSE raw_path0
                msgs == Printf(AttemptMsg(dir, raw_path0))
                        \o (IF parent # << >> THEN Printf(DerivedMsg(raw_path))
                                              ELSE Printf(BailMsg))
                out == [fs EXCEPT !.dir = raw_path]
            IN [ret |-> out.dir # << >>, file_spec |-> out, msgs |-> msgs]

\* HostInfoPosix::ComputeSupportExeDirectory(file_spec)
ComputeSupportExeDirectory(fs) ==
    ComputePathRelativeToLibrary(fs, <<"/", "b", "i", "n">>)

\* HostInfoPosix::ComputeHeaderDirectory(file_spec): the fixed install path.
HeaderDir == <<"/", "o", "p", "t", "/", "l", "o", "c", "a", "l", "/",
               "i", "n", "c", "l", "u", "d", "e", "/", "l", "l", "d", "b">>

ComputeHeaderDirectory(fs) ==
    [ret |-> TRUE, file_spec |-> [fs EXCEPT !.dir = HeaderDir], msgs |-> << >>]

(***************************************************************************)
(* The path actions.                                                       *)
(***************************************************************************)
PathInit ==
    /\ shlib_dir \in Paths
    /\ file_spec \in [dir : CallerDirs, filename : CallerNames]
    /\ log_on \in BOOLEAN
    /\ path_call = NoPathCall

\* The parent adapter determines another shared-library directory.
SeedShlibDir ==
    /\ \E p \in Paths : p # shlib_dir /\ shlib_dir' = p
    /\ path_call' = NoPathCall
    /\ UNCHANGED <<file_spec, log_on>>

\* The host log category is enabled or disabled.
SetLog ==
    /\ log_on' = ~log_on
    /\ path_call' = NoPathCall
    /\ UNCHANGED <<shlib_dir, file_spec>>

\* A caller prepares another output handle.
NewFileSpec ==
    /\ \E fs \in [dir : CallerDirs, filename : CallerNames] :
          fs # file_spec /\ file_spec' = fs
    /\ path_call' = NoPathCall
    /\ UNCHANGED <<shlib_dir, log_on>>

Returned(op, dir, r) ==
    /\ file_spec' = r.file_spec
    /\ path_call' = [op |-> op, dir |-> dir, pre |-> file_spec,
                     ret |-> r.ret, msgs |-> r.msgs]
    /\ UNCHANGED <<shlib_dir, log_on>>

CallComputePathRelativeToLibrary ==
    \E dir \in Suffixes :
        Returned("ComputePathRelativeToLibrary", dir,
                 ComputePathRelativeToLibrary(file_spec, dir))

CallComputeSupportExeDirectory ==
    Returned("ComputeSupportExeDirectory", <<"/", "b", "i", "n">>,
             ComputeSupportExeDirectory(file_spec))

CallComputeHeaderDirectory ==
    Returned("ComputeHeaderDirectory", << >>, ComputeHeaderDirectory(file_spec))

PathNext ==
    \/ SeedShlibDir /\ UNCHANGED <<resolver_vars, host_vars>>
    \/ SetLog /\ UNCHANGED <<resolver_vars, host_vars>>
    \/ NewFileSpec /\ UNCHANGED <<resolver_vars, host_vars>>
    \/ CallComputePathRelativeToLibrary /\ UNCHANGED <<resolver_vars, host_vars>>
    \/ CallComputeSupportExeDirectory /\ UNCHANGED <<resolver_vars, host_vars>>
    \/ CallComputeHeaderDirectory /\ UNCHANGED <<resolver_vars, host_vars>>


(***************************************************************************)
(* The user/group name resolver: PosixUserIDResolver.                      *)
(***************************************************************************)
Threads == {"t1", "t2"}
Ids == 0..MaxId

\* The empty optional, a null pointer, and a result pointer a failed reentrant
\* lookup left as the caller set it (pointing at the caller's unfilled struct).
None == "None"
NULL == "NULL"
Unset == "unset"
Garbage == "garbage"

UserNames == <<"root", "daemon", "bin", "sys">>
GroupNames == <<"wheel", "staff", "adm", "tty">>
pw_name(uid) == UserNames[uid + 1]
gr_name(gid) == GroupNames[gid + 1]

Platforms ==
    { [ANDROID |-> FALSE, USE_GETPWUID |-> FALSE],
      [ANDROID |-> TRUE, USE_GETPWUID |-> FALSE],
      [ANDROID |-> TRUE, USE_GETPWUID |-> TRUE] }

\* The outcomes of the C library's lookups on the current databases.
getpwuid_r(uid) ==
    CASE passwd[uid] = "entry" -> { [fn |-> "getpwuid_r", rc |-> 0, res |-> pw_name(uid)] }
      [] passwd[uid] = "absent" -> { [fn |-> "getpwuid_r", rc |-> 0, res |-> NULL] }
      [] passwd[uid] = "error" -> { [fn |-> "getpwuid_r", rc |-> 5, res |-> NULL],
                                    [fn |-> "getpwuid_r", rc |-> 5, res |-> Unset] }

getpwuid(uid) ==
    IF passwd[uid] = "entry"
    THEN [fn |-> "getpwuid", rc |-> 0, res |-> pw_name(uid)]
    ELSE [fn |-> "getpwuid", rc |-> 0, res |-> NULL]

getgrgid_r(gid) ==
    IF reentrant_broken
    THEN { [fn |-> "getgrgid_r", rc |-> 5, res |-> NULL],
           [fn |-> "getgrgid_r", rc |-> 5, res |-> Unset] }
    ELSE IF group[gid] = "entry"
    THEN { [fn |-> "getgrgid_r", rc |-> 0, res |-> gr_name(gid)] }
    ELSE { [fn |-> "getgrgid_r", rc |-> 0, res |-> NULL] }

getgrgid(gid) ==
    IF group[gid] = "entry"
    THEN [fn |-> "getgrgid", rc |-> 0, res |-> gr_name(gid)]
    ELSE [fn |-> "getgrgid", rc |-> 0, res |-> NULL]

\* std::string(ptr->pw_name) for the result pointer of a reentrant lookup.
NameAt(res) == IF res = Unset THEN Garbage ELSE res

(***************************************************************************)
(* What the hooks decide from a lookup's outcome r.  next is "return"      *)
(* (with value, the optional returned) or the step the hook goes on with.  *)
(***************************************************************************)
\* The return code of getpwuid_r is not looked at.
UserReentrant_IgnoresCode(r) ==
    IF r.res # NULL
    THEN [next |-> "return", value |-> NameAt(r.res)]
    ELSE [next |-> "return", value |-> None]

\* DoGetUserName, lines 70-80.
UserReentrant(r) ==
    IF r.rc = 0 /\ r.res # NULL
    THEN [next |-> "return", value |-> NameAt(r.res)]
    ELSE [next |-> "return", value |-> None]

\* DoGetUserName, lines 66-68 and 80: the pointer test; the name is read next.
UserNonReentrant(r) ==
    IF r.res # NULL
    THEN [next |-> "pw_name", value |-> None]
    ELSE [next |-> "return", value |-> None]

\* The fallback is taken whenever the reentrant lookup gave no entry.
GroupReentrant_FallsBackOnNull(r) ==
    IF r.rc = 0 /\ r.res # NULL
    THEN [next |-> "return", value |-> NameAt(r.res)]
    ELSE [next |-> "getgrgid", value |-> None]

\* DoGetGroupName, lines 90-94 and 104.
GroupReentrant(r) ==
    IF r.rc = 0
    THEN IF r.res # NULL
         THEN [next |-> "return", value |-> NameAt(r.res)]
         ELSE [next |-> "return", value |-> None]
    ELSE [next |-> "getgrgid", value |-> None]

\* DoGetGroupName, lines 97-98 and 104: the pointer test; the name is read next.
GroupFallback(r) ==
    IF r.res # NULL
    THEN [next |-> "gr_name", value |-> None]
    ELSE [next |-> "return", value |-> None]

\* The name is taken from the caller's own unfilled struct, not from the
\* pointer getgrgid returned.
GroupFallbackName_FromOwnStruct(static) == Garbage

\* DoGetGroupName, line 99: std::string(group_info_ptr->gr_name), read from the
\* static storage as it is when the read happens.
GroupFallbackName(static) == static

\* DoGetUserName, line 68: std::string(user_info_ptr->pw_name), likewise.
UserNonReentrantName(static) == static

(***************************************************************************)
(* The resolver actions.                                                   *)
(***************************************************************************)
NoArg == [kind |-> "none", id |-> 0]
NoRet == [kind |-> "none", id |-> 0, value |-> None, calls |-> << >>]

ResolverInit ==
    /\ platform \in Platforms
    /\ passwd \in [Ids -> {"entry", "absent", "error"}]
    /\ group \in [Ids -> {"entry", "absent"}]
    /\ reentrant_broken \in BOOLEAN
    /\ pw_static = NULL
    /\ gr_static = NULL
    /\ pc = [t \in Threads |-> "idle"]
    /\ arg = [t \in Threads |-> NoArg]
    /\ trace = [t \in Threads |-> << >>]
    /\ hook_ret = [t \in Threads |-> NoRet]

\* The base class lets thread t enter the hook for (kind, id).
MayEnter(t, kind, id) ==
    IF discipline = "global"
    THEN \A o \in Threads : pc[o] = "idle"
    ELSE \A o \in Threads \ {t} : pc[o] = "idle" \/ arg[o] # [kind |-> kind, id |-> id]

\* The base class calls a hook.  DoGetGroupName asserts on android: it is not
\* to be called there.
Invoke(t) ==
    \E kind \in {"user", "group"}, id \in Ids :
        /\ pc[t] = "idle"
        /\ MayEnter(t, kind, id)
        /\ kind = "group" => ~platform.ANDROID
        /\ pc' = [pc EXCEPT ![t] =
                    IF kind = "group" THEN "getgrgid_r"
                    ELSE IF platform.USE_GETPWUID THEN "getpwuid" ELSE "getpwuid_r"]
        /\ arg' = [arg EXCEPT ![t] = [kind |-> kind, id |-> id]]
        /\ trace' = [trace EXCEPT ![t] = << >>]
        /\ hook_ret' = [hook_ret EXCEPT ![t] = NoRet]
        /\ UNCHANGED <<platform, discipline, passwd, group, reentrant_broken,
                       pw_static, gr_static>>

\* Thread t's hook returns value after the lookup r (or after the name read).
Return(t, calls, value) ==
    /\ pc' = [pc EXCEPT ![t] = "idle"]
    /\ arg' = [arg EXCEPT ![t] = NoArg]
    /\ trace' = [trace EXCEPT ![t] = << >>]
    /\ hook_ret' = [hook_ret EXCEPT ![t] =
                      [kind |-> arg[t].kind, id |-> arg[t].id,
                       value |-> value, calls |-> calls]]

\* Thread t's hook goes on to its next step.
Goto(t, calls, next) ==
    /\ pc' = [pc EXCEPT ![t] = next]
    /\ trace' = [trace EXCEPT ![t] = calls]
    /\ UNCHANGED <<hook_ret, arg>>

Proceed(t, calls, d) ==
    IF d.next = "return" THEN Return(t, calls, d.value) ELSE Goto(t, calls, d.next)

UserReentrantStep(t) ==
    /\ pc[t] = "getpwuid_r"
    /\ \E r \in getpwuid_r(arg[t].id) :
          Proceed(t, Append(trace[t], r), UserReentrant(r))
    /\ UNCHANGED <<platform, discipline, passwd, group, reentrant_broken,
                   pw_static, gr_static>>

UserNonReentrantStep(t) ==
    /\ pc[t] = "getpwuid"
    /\ LET r == getpwuid(arg[t].id)
       IN /\ pw_static' = IF r.res # NULL THEN r.res ELSE pw_static
          /\ Proceed(t, Append(trace[t], r), UserNonReentrant(r))
    /\ UNCHANGED <<platform, discipline, passwd, group, reentrant_broken,
                   gr_static>>

UserReadNameStep(t) ==
    /\ pc[t] = "pw_name"
    /\ Return(t, trace[t], UserNonReentrantName(pw_static))
    /\ UNCHANGED <<platform, discipline, passwd, group, reentrant_broken,
                   pw_static, gr_static>>

GroupReentrantStep(t) ==
    /\ pc[t] = "getgrgid_r"
    /\ \E r \in getgrgid_r(arg[t].id) :
          Proceed(t, Append(trace[t], r), GroupReentrant(r))
    /\ UNCHANGED <<platform, discipline, passwd, group, reentrant_broken,
                   pw_static, gr_static>>

GroupFallbackStep(t) ==
    /\ pc[t] = "getgrgid"
    /\ LET r == getgrgid(arg[t].id)
       IN /\ gr_static' = IF r.res # NULL THEN r.res ELSE gr_static
          /\ Proceed(t, Append(trace[t], r), GroupFallback(r))
    /\ UNCHANGED <<platform, discipline, passwd, group, reentrant_broken,
                   pw_static>>

GroupReadNameStep(t) ==
    /\ pc[t] = "gr_name"
    /\ Return(t, trace[t], GroupFallbackName(gr_static))
    /\ UNCHANGED <<platform, discipline, passwd, group, reentrant_broken,
                   pw_static, gr_static>>

\* Between hook invocations the databases change: one entry, or whether the
\* reentrant group lookup works.  What was returned before is forgotten.
ChangeDatabase ==
    /\ \A t \in Threads : pc[t] = "idle"
    /\ \/ /\ \E u \in Ids, v \in {"entry", "absent", "error"} :
                v # passwd[u] /\ passwd' = [passwd EXCEPT ![u] = v]
          /\ UNCHANGED <<group, reentrant_broken>>
       \/ /\ \E g \in Ids, v \in {"entry", "absent"} :
                v # group[g] /\ group' = [group EXCEPT ![g] = v]
          /\ UNCHANGED <<passwd, reentrant_broken>>
       \/ /\ reentrant_broken' = ~reentrant_broken
          /\ UNCHANGED <<passwd, group>>
    /\ hook_ret' = [t \in Threads |-> NoRet]
    /\ UNCHANGED <<platform, discipline, pw_static, gr_static, pc, arg, trace>>

ResolverNext ==
    \/ \E t \in Threads : Invoke(t) /\ UNCHANGED <<path_vars, host_vars>>
    \/ \E t \in Threads : UserReentrantStep(t) /\ UNCHANGED <<path_vars, host_vars>>
    \/ \E t \in Threads : UserNonReentrantStep(t) /\ UNCHANGED <<path_vars, host_vars>>
    \/ \E t \in Threads : UserReadNameStep(t) /\ UNCHANGED <<path_vars, host_vars>>
    \/ \E t \in Threads : GroupReentrantStep(t) /\ UNCHANGED <<path_vars, host_vars>>
    \/ \E t \in Threads : GroupFallbackStep(t) /\ UNCHANGED <<path_vars, host_vars>>
    \/ \E t \in Threads : GroupReadNameStep(t) /\ UNCHANGED <<path_vars, host_vars>>
    \/ ChangeDatabase /\ UNCHANGED <<path_vars, host_vars>>

(***************************************************************************)
(* HostInfoPosix::GetHostname.                                             *)
(***************************************************************************)
Chars == {"h", "o"}
Bytes == Chars \cup {"NUL"}

\* HOST_NAME_MAX is below PATH_MAX: a node name fits the buffer less one byte.
MaxNameLen == BufLen - 1
NodeNames == UNION { [1..n -> Chars] : n \in 0..MaxNameLen }

NoHost == << "NUL" >>
CanonNames == { <<"h", ".", "d">>, <<"o", ".", "d">> }
CallerStrings == { << >>, <<"o", "l", "d">> }

\* What an uninitialized char hostname[PATH_MAX] may hold.
StackBuffers == [1..BufLen -> Bytes]

\* The C string at the start of buf: the bytes before the first NUL.  Without
\* a NUL in buf the read runs past the array; "?" stands for what it finds.
c_str(buf) ==
    LET nuls == { i \in 1..Len(buf) : buf[i] = "NUL" }
    IN IF nuls = {} THEN buf \o <<"?">>
       ELSE SubSeq(buf, 1, (CHOOSE i \in nuls : \A j \in nuls : i <= j) - 1)

\* ::gethostname(buf, len): the node name and its terminator when they fit in
\* len bytes, else the first len bytes of the name; -1 when the query fails.
gethostname(buf, len, kernel_fails) ==
    LET n == Len(nodename)
        written == IF n < len THEN nodename \o <<"NUL">> ELSE SubSeq(nodename, 1, len)
        out == [i \in 1..Len(buf) |-> IF i <= Len(written) THEN written[i] ELSE buf[i]]
    IN IF kernel_fails THEN [rc |-> -1, buf |-> buf] ELSE [rc |-> 0, buf |-> out]

\* ::gethostbyname(name): the hostent's h_name, or NoHost for a null result.
gethostbyname(name) == IF name = nodename THEN dns ELSE NoHost

\* The raw node name is assigned whether or not the resolution succeeded.
GetHostname_IgnoresResolution(s0, stack, kernel_fails) ==
    LET hostname0 == [stack EXCEPT ![BufLen] = "NUL"]
        r == gethostname(hostname0, BufLen - 1, kernel_fails)
    IN IF r.rc = 0
       THEN [ret |-> TRUE, s |-> c_str(r.buf), lookups |-> <<c_str(r.buf)>>]
       ELSE [ret |-> FALSE, s |-> s0, lookups |-> << >>]

\* The whole buffer is assigned: s.assign(hostname, sizeof(hostname)).
GetHostname_AssignsBuffer(s0, stack, kernel_fails) ==
    LET hostname0 == [stack EXCEPT ![BufLen] = "NUL"]
        r == gethostname(hostname0, BufLen - 1, kernel_fails)
    IN IF r.rc = 0
       THEN LET h == gethostbyname(c_str(r.buf))
            IN [ret |-> TRUE,
                s |-> IF h # NoHost THEN h ELSE r.buf,
                lookups |-> <<c_str(r.buf)>>]
       ELSE [ret |-> FALSE, s |-> s0, lookups |-> << >>]

\* GetHostname(s), lines 31-43, on the stack contents it finds.  The result is
\* [ret, s, lookups]: the return value, the caller's string on return and the
\* names handed to gethostbyname.
GetHostname(s0, stack, kernel_fails) ==
    LET hostname0 == [stack EXCEPT ![BufLen] = "NUL"]
        r == gethostname(hostname0, BufLen - 1, kernel_fails)
    IN IF r.rc = 0
       THEN LET h == gethostbyname(c_str(r.buf))
            IN [ret |-> TRUE,
                s |-> IF h # NoHost THEN h ELSE c_str(r.buf),
                lookups |-> <<c_str(r.buf)>>]
       ELSE [ret |-> FALSE, s |-> s0, lookups |-> << >>]

NoHostCall ==
    [op |-> "none", ret |-> FALSE, pre |-> << >>, kernel_ok |-> FALSE, lookups |-> << >>]

HostInit ==
    /\ nodename \in NodeNames
    /\ dns \in CanonNames \cup {NoHost}
    /\ s \in CallerStrings
    /\ host_call = NoHostCall

\* sethostname: the node name changes.
SetNodeName ==
    /\ \E n \in NodeNames : n # nodename /\ nodename' = n
    /\ host_call' = NoHostCall
    /\ UNCHANGED <<dns, s>>

\* The name service starts or stops resolving the node name.
ChangeResolution ==
    /\ \E d \in CanonNames \cup {NoHost} : d # dns /\ dns' = d
    /\ host_call' = NoHostCall
    /\ UNCHANGED <<nodename, s>>

\* A caller passes another string.
NewString ==
    /\ \E c \in CallerStrings : c # s /\ s' = c
    /\ host_call' = NoHostCall
    /\ UNCHANGED <<nodename, dns>>

CallGetHostname ==
    \E stack \in StackBuffers, kernel_fails \in BOOLEAN :
        LET r == GetHostname(s, stack, kernel_fails)
        IN /\ s' = r.s
           /\ host_call' = [op |-> "GetHostname", ret |-> r.ret, pre |-> s,
                            kernel_ok |-> ~kernel_fails, lookups |-> r.lookups]
           /\ UNCHANGED <<nodename, dns>>

HostNext ==
    \/ SetNodeName /\ UNCHANGED <<path_vars, resolver_vars>>
    \/ ChangeResolution /\ UNCHANGED <<path_vars, resolver_vars>>
    \/ NewString /\ UNCHANGED <<path_vars, resolver_vars>>
    \/ CallGetHostname /\ UNCHANGED <<path_vars, resolver_vars>>

HostIdle ==
    /\ nodename = <<"h">>
    /\ dns = NoHost
    /\ s = << >>
    /\ host_call = NoHostCall

(***************************************************************************)
(* The specifications.                                                     *)
(***************************************************************************)
PathIdle ==
    /\ path_call = NoPathCall
    /\ shlib_dir = << >>
    /\ log_on = FALSE
    /\ file_spec = [dir |-> << >>, filename |-> << >>]

ResolverIdle ==
    /\ ResolverInit
    /\ platform = [ANDROID |-> FALSE, USE_GETPWUID |-> FALSE]
    /\ discipline = "global"
    /\ reentrant_broken = FALSE
    /\ passwd = [u \in Ids |-> "entry"]
    /\ group = [g \in Ids |-> "entry"]

\* The path derivation alone.
InitPath == PathInit /\ ResolverIdle /\ HostIdle
SpecPath == InitPath /\ [][PathNext]_vars

\* The resolver under the base class's lock: one hook invocation at a time.
InitResolver == PathIdle /\ HostIdle /\ ResolverInit /\ discipline = "global"
SpecResolver == InitResolver /\ [][ResolverNext]_vars

\* The resolver under either reading of the base class's serialization.
InitRace == PathIdle /\ HostIdle /\ ResolverInit /\ discipline \in {"global", "per_id"}
SpecRace == InitRace /\ [][ResolverNext]_vars

\* The hostname query alone.
InitHost == PathIdle /\ ResolverIdle /\ HostInit
SpecHost == InitHost /\ [][HostNext]_vars

(***************************************************************************)
(* Properties of the path derivation (checked under SpecPath).             *)
(***************************************************************************)
BinSuffix == <<"/", "b", "i", "n">>

\* A call of compute_sibling_directory has returned; shlib_dir and log_on are
\* those the call saw, file_spec is the output handle it left.
SiblingReturned ==
    path_call.op \in {"ComputePathRelativeToLibrary", "ComputeSupportExeDirectory"}

\* C1: when the shared-library directory is present and its textual parent is
\* empty, the call returns failure and leaves the output's directory empty.
C1_EmptyParentFails ==
    (SiblingReturned /\ shlib_dir # << >> /\ parent_path(shlib_dir) = << >>)
        => (path_call.ret = FALSE /\ file_spec.dir = << >>)

\* C2: when the textual parent P of the shared-library directory is non-empty,
\* the call sets the output's directory to exactly P followed by the suffix and
\* returns true; P is the directory with its trailing segment trimmed;
\* compute_support_exe_directory is the case of the suffix /bin.
C2_SiblingOfParent ==
    SiblingReturned =>
        /\ parent_path(shlib_dir) # << >> =>
              /\ path_call.ret = TRUE
              /\ file_spec.dir = parent_path(shlib_dir) \o path_call.dir
        /\ \A P \in Paths \ { << >>, <<"/">> } : \A seg \in Segments :
              shlib_dir = P \o <<"/">> \o seg =>
                  /\ path_call.ret = TRUE
                  /\ file_spec.dir = P \o path_call.dir
        /\ \A seg \in Segments :
              shlib_dir = <<"/">> \o seg =>
                  /\ path_call.ret = TRUE
                  /\ file_spec.dir = <<"/">> \o path_call.dir
        /\ path_call.op = "ComputeSupportExeDirectory" => path_call.dir = BinSuffix

\* /x/lib/x, the shape of /prefix/lib/sub, has yielded /x/lib/bin.
C2_Witness ==
    /\ SiblingReturned
    /\ path_call.op = "ComputeSupportExeDirectory"
    /\ shlib_dir = <<"/", "x", "/", "l", "i", "b", "/", "x">>
    /\ file_spec.dir = <<"/", "x", "/", "l", "i", "b", "/", "b", "i", "n">>
    /\ path_call.ret = TRUE

\* C3: when the shared-library directory is absent the call returns false and
\* the output handle, directory and filename, is what the caller passed in.
C3_AbsentLeavesOutput ==
    (SiblingReturned /\ shlib_dir = << >>)
        => (path_call.ret = FALSE /\ file_spec = path_call.pre)

\* An absent shared-library directory met an output handle holding both a
\* directory and a filename.
C3_Witness ==
    /\ SiblingReturned
    /\ shlib_dir = << >>
    /\ path_call.pre.dir # << >>
    /\ path_call.pre.filename # << >>
    /\ path_call.ret = FALSE

\* C4 as stated: on every path, also the one on which nothing is derived, the
\* call returns success iff the output's directory is non-empty on return.
C4_SuccessIffDirectoryAlways ==
    SiblingReturned => (path_call.ret = TRUE <=> file_spec.dir # << >>)

\* C4 amended: when the shared-library directory is present the call returns
\* success iff the output's directory is non-empty on return; when it is absent
\* the call returns failure whatever directory the output holds.
C4_SuccessIffDirectoryWhenPresent ==
    SiblingReturned =>
        /\ shlib_dir # << >> => (path_call.ret = TRUE <=> file_spec.dir # << >>)
        /\ shlib_dir = << >> => path_call.ret = FALSE

\* A call with the shared-library directory present turned an empty output
\* directory into a non-empty one and reported success.
C4_Witness ==
    /\ SiblingReturned
    /\ shlib_dir # << >>
    /\ path_call.pre.dir = << >>
    /\ path_call.ret = TRUE
    /\ file_spec.dir # << >>

\* C5: with a host-category logger every call emits first the message naming
\* the source path and the suffix and then exactly one outcome message, the
\* derived path when the call succeeds and the bailed-out message when it fails;
\* without a logger no message is emitted.
C5_LogProtocol ==
    SiblingReturned =>
        IF log_on
        THEN path_call.msgs =
                <<AttemptMsg(path_call.dir, shlib_dir),
                  IF path_call.ret THEN DerivedMsg(file_spec.dir) ELSE BailMsg>>
        ELSE path_call.msgs = << >>

(***************************************************************************)
(* Properties of the resolver hooks (SpecResolver, SpecRace).              *)
(***************************************************************************)
GroupReturned(t) == hook_ret[t].kind = "group"
UserReturned(t) == hook_ret[t].kind = "user"

\* C6: resolve_group_name calls the reentrant lookup first; it calls the
\* non-reentrant lookup at most once and only after the reentrant one returned
\* non-zero; it returns the name when the reentrant call returned zero with a
\* non-null result or the fallback returned non-null, and the empty optional
\* without a fallback when the reentrant call returned zero with a null result.
C6_GroupLookupProtocol ==
    \A t \in Threads :
        /\ (arg[t].kind = "group" /\ trace[t] # << >>) => trace[t][1].fn = "getgrgid_r"
        /\ GroupReturned(t) =>
              LET c == hook_ret[t].calls
                  v == hook_ret[t].value
              IN /\ Len(c) \in {1, 2}
                 /\ c[1].fn = "getgrgid_r"
                 /\ Len(c) = 2 => (c[2].fn = "getgrgid" /\ c[1].rc # 0)
                 /\ (c[1].rc = 0 /\ c[1].res # NULL) =>
                        (v = c[1].res /\ v = gr_name(hook_ret[t].id))
                 /\ (c[1].rc = 0 /\ c[1].res = NULL) => (v = None /\ Len(c) = 1)
                 /\ (Len(c) = 2 /\ c[2].res # NULL) =>
                        (v = c[2].res /\ v = gr_name(hook_ret[t].id))

\* The fallback was taken and gave the name.
C6_Witness ==
    \E t \in Threads :
        /\ GroupReturned(t)
        /\ Len(hook_ret[t].calls) = 2
        /\ hook_ret[t].calls[1].rc # 0
        /\ hook_ret[t].value = gr_name(hook_ret[t].id)

\* The lookup of a returned user hook reported success.
UserLookupSucceeded(c) ==
    IF c.fn = "getpwuid_r" THEN c.rc = 0 /\ c.res # NULL ELSE c.res # NULL

\* C7: resolve_user_name returns the entry's name exactly when the lookup
\* reports success and the empty optional on every other outcome (an error
\* code, an unassigned uid); it reports nothing else; two calls for the same
\* uid on an unchanged database return equal results.
C7_UserLookupResult ==
    /\ \A t \in Threads :
          UserReturned(t) =>
              LET c == hook_ret[t].calls
                  v == hook_ret[t].value
                  uid == hook_ret[t].id
              IN /\ Len(c) = 1
                 /\ c[1].fn = IF platform.USE_GETPWUID THEN "getpwuid" ELSE "getpwuid_r"
                 /\ UserLookupSucceeded(c[1]) => (v = c[1].res /\ v = pw_name(uid))
                 /\ ~UserLookupSucceeded(c[1]) => v = None
                 /\ passwd[uid] = "entry" <=> v = pw_name(uid)
                 /\ passwd[uid] \in {"absent", "error"} <=> v = None
    /\ \A t1, t2 \in Threads :
          (UserReturned(t1) /\ UserReturned(t2) /\ hook_ret[t1].id = hook_ret[t2].id)
              => hook_ret[t1].value = hook_ret[t2].value

\* Two calls for one uid have returned its name.
C7_Witness ==
    /\ UserReturned("t1") /\ UserReturned("t2")
    /\ hook_ret["t1"].id = hook_ret["t2"].id
    /\ hook_ret["t1"].value = pw_name(hook_ret["t1"].id)
    /\ hook_ret["t2"].value = pw_name(hook_ret["t2"].id)

\* A hook invocation returned the name of its own id, or the empty optional.
ReturnedOwnName(t) ==
    hook_ret[t].kind # "none" =>
        hook_ret[t].value \in
            {None, IF hook_ret[t].kind = "user" THEN pw_name(hook_ret[t].id)
                                               ELSE gr_name(hook_ret[t].id)}

\* The steps between a non-reentrant lookup and the read of its static result.
InStaticWindow(t) == pc[t] \in {"pw_name", "gr_name"}

HostnameReturned == host_call.op = "GetHostname"

\* C9: hostname() returns true exactly when the kernel query succeeds; then the
\* output is the canonical name when the resolution succeeds and the raw node
\* name otherwise; when the query fails it returns false, resolves nothing and
\* leaves the caller's string unchanged.
C9_HostnameResult ==
    HostnameReturned =>
        /\ host_call.ret = host_call.kernel_ok
        /\ host_call.ret = TRUE =>
              /\ host_call.lookups = <<nodename>>
              /\ s = IF dns # NoHost THEN dns ELSE nodename
        /\ host_call.ret = FALSE =>
              /\ host_call.lookups = << >>
              /\ s = host_call.pre

\* The canonical name replaced what the caller's string held.
C9_Witness ==
    /\ HostnameReturned
    /\ host_call.ret = TRUE
    /\ dns # NoHost
    /\ s = dns
    /\ host_call.pre # s

\* C10 as stated: whenever the kernel query succeeds the returned string is
\* non-empty and holds no null byte, whatever the node name.
C10_HostnameNonEmpty ==
    (HostnameReturned /\ host_call.ret = TRUE)
        => (s # << >> /\ \A i \in 1..Len(s) : s[i] # "NUL")

\* C10 amended: whenever the kernel query succeeds the returned string holds no
\* null byte, and it is empty only when the node name is empty and the
\* resolution fails.
C10_HostnameNoNulEmptyOnlyIfNodeEmpty ==
    (HostnameReturned /\ host_call.ret = TRUE)
        => /\ \A i \in 1..Len(s) : s[i] # "NUL"
           /\ s = << >> => (nodename = << >> /\ dns = NoHost)
           /\ (nodename # << >> \/ dns # NoHost) => s # << >>

\* A node name that fills the buffer up to its last byte was returned.
C10_Witness ==
    /\ HostnameReturned
    /\ host_call.ret = TRUE
    /\ dns = NoHost
    /\ Len(nodename) = BufLen - 1
    /\ s = nodename

====
